---- MODULE Spec2Model ----
(***************************************************************************)
(* RSI signal bot (progprogect/signal-trading): the live detection and     *)
(* duplicate-suppression pipeline (rsi_analyzer.py), the store it reads    *)
(* and writes (database.py), the historical analysis, the worker loop      *)
(* (rsi_bot.py) and the handlers of the dashboard (web_interface.py).      *)
(*                                                                         *)
(* Time is an integer clock `now` counted in half-seconds (the pacing      *)
(* sleep is 1.5 s); every stored timestamp is in whole seconds.            *)
(* Symbols are sequences of one-character strings, so that the handler's   *)
(* strip/upper/endswith normalisation is computed, not assumed.            *)
(***************************************************************************)
EXTENDS Integers, Sequences, FiniteSets, TLC

(* ------------------------------------------------------------------ *)
(* Program constants                                                  *)
(* ------------------------------------------------------------------ *)

\* config.py
RSI_OVERSOLD == 30
RSI_OVERBOUGHT == 70
CHECK_INTERVAL == 180
DEFAULT_TIMEFRAME == "5m"
AVAILABLE_TIMEFRAMES ==
    {"1m", "3m", "5m", "15m", "30m", "1h", "2h", "4h", "6h", "8h", "12h", "1d"}

\* rsi_bot.py: asyncio.sleep(1.5) between symbols, in half-seconds
PACING_HALF_SECONDS == 3

\* config.py: TELEGRAM_CHAT_ID, the administrator's chat (from the environment)
TELEGRAM_CHAT_ID == 100

\* rsi_analyzer.py
MIN_LIVE_CANDLES == 5         \* len(df) < 5 -> []
LOOKBACK_CANDLES == 5         \* min(5, len(df))
PROCESSED_WINDOW == 7200      \* hours_back=2, in seconds
PROCESSED_TOLERANCE == 60     \* abs(...total_seconds()) < 60
DUPLICATE_WINDOW == 612       \* hours_back=0.17, in seconds
MIN_SYMBOL_CANDLES == 2       \* rsi_bot.py: len(df) < 2 -> skip the symbol

\* database.py: get_recent_signals(..., limit=100)
DEFAULT_QUERY_LIMIT == 100

\* rsi_analyzer.py, analyze_historical_rsi_signals: timedelta(days=days_back)
SECONDS_PER_DAY == 86400

\* web_interface.py, get_historical_signals_api: "if days > 30: days = 30"
MAX_HISTORY_DAYS == 30

(* ------------------------------------------------------------------ *)
(* Bounds of the model                                                *)
(* ------------------------------------------------------------------ *)

NSymbols == 2          \* the default watch list is cut to its first NSymbols entries
PatternLen == 5        \* the market's oscillator series repeats with this period
MaxCycles == 2         \* analysis cycles the worker may start
MaxSaves == 1          \* save-settings requests the dashboard may send
MaxFaults == 1         \* failures of the store and the data source in one run

(* ------------------------------------------------------------------ *)
(* Symbols as character sequences                                     *)
(* ------------------------------------------------------------------ *)

USDT == <<"U", "S", "D", "T">>
BTCUSDT == <<"B", "T", "C">> \o USDT
DOGEUSDT == <<"D", "O", "G", "E">> \o USDT
PEPEUSDT == <<"P", "E", "P", "E">> \o USDT
SUIUSDT == <<"S", "U", "I">> \o USDT
BIGTIMEUSDT == <<"B", "I", "G", "T", "I", "M", "E">> \o USDT
ALTUSDT == <<"A", "L", "T">> \o USDT
WLDUSDT == <<"W", "L", "D">> \o USDT

ALL_DEFAULT_SYMBOLS ==
    <<BTCUSDT, DOGEUSDT, PEPEUSDT, SUIUSDT, BIGTIMEUSDT, ALTUSDT, WLDUSDT>>

Min(a, b) == IF a < b THEN a ELSE b

DEFAULT_SYMBOLS == SubSeq(ALL_DEFAULT_SYMBOLS, 1, Min(NSymbols, Len(ALL_DEFAULT_SYMBOLS)))

(* ------------------------------------------------------------------ *)
(* Time and the market                                                *)
(* ------------------------------------------------------------------ *)

TfSeconds(tf) ==
    CASE tf = "1m" -> 60
      [] tf = "3m" -> 180
      [] tf = "5m" -> 300
      [] tf = "15m" -> 900
      [] tf = "30m" -> 1800
      [] tf = "1h" -> 3600
      [] tf = "2h" -> 7200
      [] tf = "4h" -> 14400
      [] tf = "6h" -> 21600
      [] tf = "8h" -> 28800
      [] tf = "12h" -> 43200
      [] tf = "1d" -> 86400

\* The oscillator values a candle may take: inside the oversold zone (the
\* boundary itself), neutral, inside the overbought zone (the boundary itself).
RSIValues == {RSI_OVERSOLD, 50, RSI_OVERBOUGHT}
NaN == -1
IsNaN(v) == v = NaN

\* Start of the modelled run, in seconds: a multiple of every timeframe
\* modelled here, late enough for five candles of each to exist.
Epoch == 5 * 86400

VARIABLES
    now,            \* wall clock, half-seconds
    market,         \* oscillator value of candle k is market[k % PatternLen]
    db_type,        \* "sqlite" | "postgresql"
    faults,         \* failures of the store and the data source this run may still see
    rsi_signals,    \* table rsi_signals, in insertion order
    user_settings,  \* table user_settings, row id = 1
    config,         \* module config: RSI_OVERSOLD, RSI_OVERBOUGHT (mutable attributes)
    bot,            \* RSIBot: is_running, current_symbols, current_timeframe, ...
    worker,         \* position of the coroutine RSIBot.start()
    pending,        \* signals returned by analyze_rsi_signals, not yet looked at
    notified,       \* signals handed to send_telegram_notification, in order
    analysed,       \* this cycle's symbols already through analyze_symbol, with outcome
    web,            \* the web server task: up, saves handled, last response
    log,            \* which error lines were logged so far: "error" is the line of
                    \* analyze_symbol, "settings" the line of get_user_settings
    fn              \* the one call a run is about (a pure function, a dashboard
                    \* request, an analysis): its inputs, then its result

vars == <<now, market, db_type, faults, rsi_signals, user_settings, config, bot,
          worker, pending, notified, analysed, web, log, fn>>

NowSec == now \div 2

\* df.index[-i] and df['rsi'].iloc[-i] of the window fetched for timeframe
\* df.tf whose newest candle is number df.k and which holds df.n candles.
DfTime(df, i) == (df.k - (i - 1)) * TfSeconds(df.tf)
DfRsi(df, i) ==
    IF df.rsi_column THEN market[(df.k - (i - 1)) % PatternLen] ELSE NaN

(* ------------------------------------------------------------------ *)
(* database.py                                                        *)
(* ------------------------------------------------------------------ *)

NO_HOURS_BACK == -1           \* hours_back=None
NoSymbol == <<>>              \* symbol=None (or any falsy value)
NoTimeframe == ""             \* timeframe=None
NoRow == [present |-> FALSE]  \* no row id = 1 in user_settings

\* "timestamp >= datetime('now', '-' || ? || ' hours')" compares strings of
\* whole seconds (the clock cut to the second); "timestamp >= NOW() - INTERVAL"
\* compares against the clock itself, so a whole-second timestamp passes
\* from the next whole second on.
CutoffSeconds(seconds_back) ==
    IF db_type = "sqlite" THEN NowSec - seconds_back
    ELSE ((now + 1) \div 2) - seconds_back

\* Variant of RowMatches: the WHERE clause without its symbol and timeframe
\* conditions
RowMatchesAnyPair(row, symbol, timeframe, seconds_back) ==
    seconds_back # NO_HOURS_BACK => row.timestamp >= CutoffSeconds(seconds_back)

\* The WHERE clause get_recent_signals builds from its arguments
RowMatches(row, symbol, timeframe, seconds_back) ==
    /\ (symbol # NoSymbol => row.symbol = symbol)
    /\ (timeframe # NoTimeframe => row.timeframe = timeframe)
    /\ (seconds_back # NO_HOURS_BACK => row.timestamp >= CutoffSeconds(seconds_back))

RECURSIVE InsertDesc(_, _)
InsertDesc(sorted, row) ==
    IF sorted = <<>> THEN <<row>>
    ELSE IF Head(sorted).timestamp >= row.timestamp
         THEN <<Head(sorted)>> \o InsertDesc(Tail(sorted), row)
         ELSE <<row>> \o sorted

RECURSIVE OrderByTimestampDesc(_)
OrderByTimestampDesc(rows) ==
    IF rows = <<>> THEN <<>>
    ELSE InsertDesc(OrderByTimestampDesc(SubSeq(rows, 1, Len(rows) - 1)), rows[Len(rows)])

\* RSIDatabase.get_recent_signals; ok = FALSE is the except branch
GetRecentSignals(rows, symbol, timeframe, seconds_back, limit, ok) ==
    IF ~ok THEN <<>>
    ELSE LET hit(r) == RowMatches(r, symbol, timeframe, seconds_back)
         IN  CHOOSE result \in
                 {SubSeq(sorted, 1, Min(limit, Len(sorted))) :
                     sorted \in {OrderByTimestampDesc(SelectSeq(rows, hit))}} : TRUE

\* RSIDatabase.add_signal; ok = FALSE is the except branch (returns False)
AddSignal(rows, signal, ok) ==
    IF ok
    THEN Append(rows, [symbol |-> signal.symbol,
                       timeframe |-> signal.timeframe,
                       signal_type |-> signal.signal_type,
                       rsi_value |-> signal.rsi_value,
                       timestamp |-> signal.timestamp,
                       previous_rsi |-> signal.previous_rsi])
    ELSE rows

\* RSIDatabase.get_user_settings; None is NoRow
GetUserSettings(row, ok) == IF ok THEN row ELSE NoRow

\* RSIDatabase.save_user_settings: SQLite's INSERT OR REPLACE writes a new
\* row, so the column it does not name takes its default; PostgreSQL's
\* ON CONFLICT DO UPDATE leaves that column as it is.
SaveUserSettings(row, symbols, timeframe, rsi_oversold, rsi_overbought, ok) ==
    IF ~ok THEN row
    ELSE [present |-> TRUE,
          symbols |-> symbols,
          timeframe |-> timeframe,
          rsi_oversold |-> rsi_oversold,
          rsi_overbought |-> rsi_overbought,
          notifications_enabled |->
              IF db_type = "postgresql" /\ row.present
              THEN row.notifications_enabled ELSE TRUE]

\* RSIDatabase._create_default_settings, as run by the constructor
DefaultSettingsRow ==
    [present |-> TRUE, symbols |-> DEFAULT_SYMBOLS, timeframe |-> "5m",
     rsi_oversold |-> 30, rsi_overbought |-> 70, notifications_enabled |-> TRUE]

(* ------------------------------------------------------------------ *)
(* rsi_analyzer.py                                                    *)
(* ------------------------------------------------------------------ *)

NoSignal == "none"
SignalTypes == {"oversold_enter", "oversold_exit", "overbought_enter", "overbought_exit"}

\* Variant of LiveSignalType: the four branches of the historical analysis
LiveSignalTypeWithExits(previous_rsi, current_rsi, low, high) ==
    IF previous_rsi <= low /\ current_rsi > low THEN "oversold_exit"
    ELSE IF previous_rsi >= high /\ current_rsi < high THEN "overbought_exit"
    ELSE IF previous_rsi > low /\ current_rsi <= low THEN "oversold_enter"
    ELSE IF previous_rsi < high /\ current_rsi >= high THEN "overbought_enter"
    ELSE "none"

\* analyze_rsi_signals, lines 41-51: the type of the crossing of one pair
LiveSignalType(previous_rsi, current_rsi, low, high) ==
    IF previous_rsi > low /\ current_rsi <= low THEN "oversold_enter"
    ELSE IF previous_rsi < high /\ current_rsi >= high THEN "overbought_enter"
    ELSE NoSignal

\* _was_signal_processed
WasSignalProcessed(rows, symbol, timeframe, timestamp, read_ok) ==
    LET recent_signals ==
            GetRecentSignals(rows, symbol, timeframe, PROCESSED_WINDOW,
                             DEFAULT_QUERY_LIMIT, read_ok)
        diff(a, b) == IF a >= b THEN a - b ELSE b - a
    IN  \E j \in 1..Len(recent_signals) :
            diff(recent_signals[j].timestamp, timestamp) < PROCESSED_TOLERANCE

\* Variant of IsDuplicateSignal: a lookup that fails counts as a duplicate
IsDuplicateSignalFailClosed(rows, signal, read_ok) ==
    LET recent_signals ==
            GetRecentSignals(rows, signal.symbol, signal.timeframe, DUPLICATE_WINDOW,
                             DEFAULT_QUERY_LIMIT, read_ok)
    IN  \/ ~read_ok
        \/ \E j \in 1..Len(recent_signals) :
               recent_signals[j].signal_type = signal.signal_type

\* _is_duplicate_signal
IsDuplicateSignal(rows, signal, read_ok) ==
    LET recent_signals ==
            GetRecentSignals(rows, signal.symbol, signal.timeframe, DUPLICATE_WINDOW,
                             DEFAULT_QUERY_LIMIT, read_ok)
    IN  \E j \in 1..Len(recent_signals) :
            recent_signals[j].signal_type = signal.signal_type

\* Variant of FirstPair: the loop written as range(lookback_candles, 0, -1)
FirstPairOneMore(df) == Min(LOOKBACK_CANDLES, df.n)

\* The first value of i in "for i in range(lookback_candles - 1, 0, -1)"
FirstPair(df) == Min(LOOKBACK_CANDLES, df.n) - 1

\* One pass of the loop body for pair i, on st = [rows, signals]; AnalyzeLoop
\* hands each pass the value the pass before it left.
AnalyzePair(i, symbol, timeframe, df, st, read_ok, write_ok) ==
    LET current_rsi == DfRsi(df, i)
        previous_rsi == DfRsi(df, i + 1)
        current_time == DfTime(df, i)
        signal_type == LiveSignalType(previous_rsi, current_rsi,
                                      config.RSI_OVERSOLD, config.RSI_OVERBOUGHT)
        signal == [symbol |-> symbol, timeframe |-> timeframe,
                   signal_type |-> signal_type, rsi_value |-> current_rsi,
                   timestamp |-> current_time, previous_rsi |-> previous_rsi]
    IN  IF IsNaN(current_rsi) \/ IsNaN(previous_rsi) THEN st
        ELSE IF WasSignalProcessed(st.rows, symbol, timeframe, current_time, read_ok) THEN st
        ELSE IF signal_type = NoSignal THEN st
        ELSE IF IsDuplicateSignal(st.rows, signal, read_ok) THEN st
        ELSE [rows |-> AddSignal(st.rows, signal, write_ok),
              signals |-> Append(st.signals, signal)]

\* Variant of AnalyzeLoop: the pairs are gone through newest first, as
\* "for i in range(1, lookback_candles)" would
RECURSIVE AnalyzeLoopNewestFirst(_, _, _, _, _, _, _)
AnalyzeLoopNewestFirst(i, symbol, timeframe, df, st, read_ok, write_ok) ==
    IF i <= 0 THEN st
    ELSE CHOOSE after \in
             {AnalyzePair(i, symbol, timeframe, df, passed, read_ok, write_ok) :
                 passed \in {AnalyzeLoopNewestFirst(i - 1, symbol, timeframe, df, st,
                                                    read_ok, write_ok)}} :
             TRUE

\* The loop "for i in range(lookback_candles - 1, 0, -1)" from pair i on
RECURSIVE AnalyzeLoop(_, _, _, _, _, _, _)
AnalyzeLoop(i, symbol, timeframe, df, st, read_ok, write_ok) ==
    IF i <= 0 THEN st
    ELSE CHOOSE after \in
             {AnalyzeLoop(i - 1, symbol, timeframe, df, passed, read_ok, write_ok) :
                 passed \in {AnalyzePair(i, symbol, timeframe, df, st, read_ok, write_ok)}} :
             TRUE

\* analyze_rsi_signals: [rows |-> the table afterwards, signals |-> the list
\* returned]. A frame without its rsi column raises at the first pair, before
\* anything is written, and the except branch returns [].
AnalyzeRsiSignals(rows, symbol, timeframe, df, read_ok, write_ok) ==
    IF df.n < MIN_LIVE_CANDLES THEN [rows |-> rows, signals |-> <<>>]
    ELSE IF ~df.rsi_column THEN [rows |-> rows, signals |-> <<>>]
    ELSE AnalyzeLoop(FirstPair(df), symbol, timeframe, df,
                     [rows |-> rows, signals |-> <<>>], read_ok, write_ok)

\* analyze_historical_rsi_signals, lines 172-189: the type of the crossing of
\* one pair
HistoricalSignalType(previous_rsi, current_rsi, low, high) ==
    IF previous_rsi <= low /\ current_rsi > low THEN "oversold_exit"
    ELSE IF previous_rsi >= high /\ current_rsi < high THEN "overbought_exit"
    ELSE IF previous_rsi > low /\ current_rsi <= low THEN "oversold_enter"
    ELSE IF previous_rsi < high /\ current_rsi >= high THEN "overbought_enter"
    ELSE NoSignal

\* len(df[df.index >= datetime.now() - timedelta(days=days_back)]): the
\* candles kept are the newest ones of the frame
HistoricalLen(df, days_back) ==
    Cardinality({i \in 1..df.n :
                    2 * DfTime(df, i) >= now - 2 * days_back * SECONDS_PER_DAY})

\* The signal built at lines 193-202
HistoricalSignal(j, symbol, timeframe, df) ==
    [symbol |-> symbol, timeframe |-> timeframe,
     signal_type |-> HistoricalSignalType(DfRsi(df, j + 1), DfRsi(df, j),
                                          config.RSI_OVERSOLD, config.RSI_OVERBOUGHT),
     rsi_value |-> DfRsi(df, j), timestamp |-> DfTime(df, j),
     previous_rsi |-> DfRsi(df, j + 1), historical |-> TRUE]

\* Variant of HistoricalPair: a crossing found is also added to the store
HistoricalPairPersisting(j, symbol, timeframe, df, st) ==
    LET signal == HistoricalSignal(j, symbol, timeframe, df)
    IN  IF IsNaN(signal.rsi_value) \/ IsNaN(signal.previous_rsi) THEN st
        ELSE IF signal.signal_type = NoSignal THEN st
        ELSE [rows |-> AddSignal(st.rows, signal, TRUE),
              signals |-> Append(st.signals, signal)]

\* One pass of the loop body of analyze_historical_rsi_signals, for the pair
\* whose current candle is df.iloc[-j], on st = [rows, signals]
HistoricalPair(j, symbol, timeframe, df, st) ==
    LET signal == HistoricalSignal(j, symbol, timeframe, df)
    IN  IF IsNaN(signal.rsi_value) \/ IsNaN(signal.previous_rsi) THEN st
        ELSE IF signal.signal_type = NoSignal THEN st
        ELSE [rows |-> st.rows, signals |-> Append(st.signals, signal)]

\* "for i in range(1, len(historical_df))": from the oldest pair to the newest
RECURSIVE HistoricalLoop(_, _, _, _, _)
HistoricalLoop(j, symbol, timeframe, df, st) ==
    IF j <= 0 THEN st
    ELSE CHOOSE after \in
             {HistoricalLoop(j - 1, symbol, timeframe, df, passed) :
                 passed \in {HistoricalPair(j, symbol, timeframe, df, st)}} : TRUE

\* analyze_historical_rsi_signals: [rows |-> the table afterwards, signals |->
\* the list returned]. A frame without its rsi column raises at the first
\* pair, and the except branch returns [].
AnalyzeHistoricalRsiSignals(rows, symbol, timeframe, df, days_back) ==
    IF df.n < 2 THEN [rows |-> rows, signals |-> <<>>]
    ELSE IF HistoricalLen(df, days_back) < 2 THEN [rows |-> rows, signals |-> <<>>]
    ELSE IF ~df.rsi_column THEN [rows |-> rows, signals |-> <<>>]
    ELSE HistoricalLoop(HistoricalLen(df, days_back) - 1, symbol, timeframe, df,
                        [rows |-> rows, signals |-> <<>>])

NotifySignals == {"oversold_enter", "overbought_enter"}

\* Variant of ShouldNotify: without the test of notifications_enabled
ShouldNotifyAnyFlag(settings, signal_type) ==
    IF ~settings.present THEN FALSE
    ELSE signal_type \in {"oversold_enter", "overbought_enter"}

\* should_notify, given what get_user_settings returned
ShouldNotify(settings, signal_type) ==
    IF ~settings.present THEN FALSE
    ELSE IF ~settings.notifications_enabled THEN FALSE
    ELSE signal_type \in NotifySignals

(* ------------------------------------------------------------------ *)
(* rsi_bot.py                                                         *)
(* ------------------------------------------------------------------ *)

\* What a store operation may do: succeed, or (while the run may still see
\* a failure) take its except branch.
Outcomes == IF faults > 0 THEN BOOLEAN ELSE {TRUE}

\* Failures among the outcomes of one step
Failed(oks) == Cardinality({j \in 1..Len(oks) : ~oks[j]})

\* What the awaited get_historical_data may hand back: a frame, None, a frame
\* without the rsi column, or an object on which len() raises.
FetchOutcomes == IF faults > 0 THEN {"frame", "none", "no_rsi", "raises"} ELSE {"frame"}

\* Candles in the frame handed back (limit=50: five stand for five or more)
FrameLengths == IF faults > 0 THEN {1, MIN_LIVE_CANDLES - 1, MIN_LIVE_CANDLES}
                ELSE {MIN_LIVE_CANDLES}

\* Variant of BotAfterUpdate: without the assignment of current_timeframe
BotAfterUpdateNoTimeframe(b, s) ==
    IF s.present
    THEN [b EXCEPT !.current_symbols = s.symbols,
                   !.current_oversold = s.rsi_oversold,
                   !.current_overbought = s.rsi_overbought]
    ELSE b

\* update_settings, lines 51-55: the bot's fields after the read returned s
BotAfterUpdate(b, s) ==
    IF s.present
    THEN [b EXCEPT !.current_symbols = s.symbols,
                   !.current_timeframe = s.timeframe,
                   !.current_oversold = s.rsi_oversold,
                   !.current_overbought = s.rsi_overbought]
    ELSE b

\* update_settings, lines 58-59: rsi_analyzer.config is the module config
ConfigAfterUpdate(c, s) ==
    IF s.present
    THEN [RSI_OVERSOLD |-> s.rsi_oversold, RSI_OVERBOUGHT |-> s.rsi_overbought]
    ELSE c

\* run_analysis_cycle up to its first await: the for loop takes the list
\* object current_symbols names now, and analyze_symbol passes the timeframe
\* current_timeframe names now to get_historical_data.
BeginCycle(b, w) ==
    IF b.current_symbols = <<>>
    THEN [w EXCEPT !.pc = "sleep", !.symbols = <<>>, !.idx = 0, !.cycles = @ + 1]
    ELSE [w EXCEPT !.pc = "fetch", !.symbols = b.current_symbols, !.idx = 1,
                   !.req_tf = b.current_timeframe, !.cycles = @ + 1]

\* Variant of AfterSymbol: the exception leaves the for loop, and the cycle
\* ends at the first symbol that fails
AfterSymbolAbortingCycle(outcome, signals) ==
    IF outcome = "error" THEN "sleep"
    ELSE IF signals = <<>> THEN "pace" ELSE "notify"

\* Variant of AfterSymbol: the exception leaves the while loop of start()
AfterSymbolLeavingLoop(outcome, signals) ==
    IF outcome = "error" THEN "stopped"
    ELSE IF signals = <<>> THEN "pace" ELSE "notify"

\* Where analyze_symbol's caller goes on after the symbol, whatever happened
\* in it (every exception is caught at lines 142-143)
AfterSymbol(outcome, signals) == IF signals = <<>> THEN "pace" ELSE "notify"

\* The worker is suspended in asyncio.sleep, the pacing sleep of line 155 or
\* the sleep between cycles of line 179. Only then does the event loop run
\* another task: get_historical_data is awaited, but every connector does its
\* request with the blocking requests.get (and time.sleep in _rate_limit),
\* and the store is read and written with blocking calls, so the worker holds
\* the loop from the end of one sleep to the start of the next. (The one other
\* suspension is the Telegram send; a handler served during it finds the
\* state NotifyNext leaves.)
WorkerSuspended == worker.pc \in {"pace", "sleep"}

\* Variant of CurrentSymbol: the list walked from its end
CurrentSymbolReversed(w) == w.symbols[Len(w.symbols) - w.idx + 1]

\* "for symbol in self.current_symbols": the symbol the loop is at
CurrentSymbol(w) == w.symbols[w.idx]

\* RSIBot.start up to the first await of the first cycle
Start ==
    /\ worker.pc = "init"
    /\ \E read_ok \in Outcomes :
          LET s == GetUserSettings(user_settings, read_ok)
              b == BotAfterUpdate([bot EXCEPT !.is_running = TRUE], s)
          IN  /\ faults' = faults - Failed(<<read_ok>>)
              /\ bot' = b
              /\ config' = ConfigAfterUpdate(config, s)
              /\ worker' = BeginCycle(b, worker)
              /\ log' = IF s.present THEN log ELSE log \cup {"settings"}
    /\ web' = [web EXCEPT !.up = TRUE]
    /\ analysed' = <<>>
    /\ UNCHANGED <<now, market, db_type, rsi_signals, user_settings,
                   pending, notified, fn>>

\* analyze_symbol from the return of get_historical_data to its next await
AnalyzeSymbol ==
    /\ worker.pc = "fetch"
    /\ \E outcome \in FetchOutcomes, n \in FrameLengths,
          read_ok \in Outcomes, write_ok \in Outcomes :
          LET symbol == CurrentSymbol(worker)
              df == [tf |-> worker.req_tf,
                     k |-> NowSec \div TfSeconds(worker.req_tf),
                     n |-> n,
                     rsi_column |-> outcome # "no_rsi"]
              skipped == outcome = "none" \/ n < MIN_SYMBOL_CANDLES
              how == IF outcome = "raises" THEN "error"
                     ELSE IF skipped THEN "no_data" ELSE "analysed"
              failed == Failed(<<outcome = "frame", n = MIN_LIVE_CANDLES,
                                 read_ok, write_ok>>)
          IN  /\ failed <= faults
              /\ (outcome \in {"none", "raises"} => n = MIN_LIVE_CANDLES)
              /\ (how # "analysed" => read_ok /\ write_ok)
              /\ faults' = faults - failed
              /\ \E res \in {IF how # "analysed"
                              THEN [rows |-> rsi_signals, signals |-> <<>>]
                              ELSE AnalyzeRsiSignals(rsi_signals, symbol,
                                                     bot.current_timeframe, df,
                                                     read_ok, write_ok)} :
                    /\ rsi_signals' = res.rows
                    /\ pending' = res.signals
                    /\ worker' = [worker EXCEPT !.pc = AfterSymbol(how, res.signals)]
              /\ analysed' = Append(analysed,
                                    [symbol |-> symbol, outcome |-> how,
                                     n |-> n, rsi_column |-> df.rsi_column,
                                     read_ok |-> read_ok,
                                     write_ok |-> write_ok,
                                     fetch_timeframe |-> worker.req_tf,
                                     timeframe |-> bot.current_timeframe,
                                     oversold |-> config.RSI_OVERSOLD,
                                     overbought |-> config.RSI_OVERBOUGHT])
              /\ log' = IF how = "error" THEN log \cup {how} ELSE log
    /\ UNCHANGED <<now, market, db_type, user_settings, config, bot,
                   notified, web, fn>>

\* get_approved_telegram_users (the table is not written by anything
\* modelled here); ok = FALSE is the except branch
ApprovedUsers == <<101, 102>>
GetApprovedTelegramUsers(ok) == IF ok THEN ApprovedUsers ELSE <<>>

\* send_telegram_notification, lines 81-93: the approved users, and the
\* administrator when not among them
Recipients(users_ok) ==
    LET approved_users == GetApprovedTelegramUsers(users_ok)
    IN  IF \E j \in 1..Len(approved_users) : approved_users[j] = TELEGRAM_CHAT_ID
        THEN approved_users
        ELSE Append(approved_users, TELEGRAM_CHAT_ID)

\* Variant of Attempts: the first send that raises ends the loop
AttemptsUntilFailure(recipients, failing) ==
    LET last == IF failing = {} THEN Len(recipients)
                ELSE CHOOSE j \in failing : \A k \in failing : j <= k
    IN  [j \in 1..last |-> [user_id |-> recipients[j], ok |-> j \notin failing]]

\* send_telegram_notification, lines 96-109: one send_message per recipient,
\* each in its own try; failing holds the positions whose send raises
Attempts(recipients, failing) ==
    [j \in 1..Len(recipients) |-> [user_id |-> recipients[j], ok |-> j \notin failing]]

\* "for signal in signals: if should_notify(signal): await send(...)": one
\* signal. send_telegram_notification catches what its sends raise, so a send
\* that fails changes nothing the worker goes on with.
NotifyNext ==
    /\ worker.pc = "notify"
    /\ pending # <<>>
    /\ \E read_ok \in Outcomes, users_ok \in Outcomes :
          LET s == GetUserSettings(user_settings, read_ok)
              wanted == ShouldNotify(s, Head(pending).signal_type)
              recipients == Recipients(users_ok)
          IN  \E failing \in SUBSET (1..Len(recipients)) :
                LET failed == Failed(<<read_ok, users_ok>>) + Cardinality(failing)
                IN  /\ failed <= faults
                    /\ (~wanted => users_ok /\ failing = {})
                    /\ faults' = faults - failed
                    /\ notified' =
                          IF wanted
                          THEN Append(notified,
                                      [signal |-> Head(pending),
                                       recipients |-> recipients,
                                       attempts |-> Attempts(recipients, failing)])
                          ELSE notified
    /\ pending' = Tail(pending)
    /\ worker' = [worker EXCEPT !.pc = IF Tail(pending) = <<>> THEN "pace" ELSE "notify"]
    /\ UNCHANGED <<now, market, db_type, rsi_signals, user_settings, config,
                   bot, analysed, web, log, fn>>

\* The pacing sleep ends: the next symbol's fetch starts, or the cycle is over
\* and the worker sleeps CHECK_INTERVAL.
PaceDone ==
    /\ worker.pc = "pace"
    /\ now' = now + PACING_HALF_SECONDS
    /\ worker' = IF worker.idx < Len(worker.symbols)
                 THEN [worker EXCEPT !.pc = "fetch", !.idx = @ + 1,
                                     !.req_tf = bot.current_timeframe]
                 ELSE [worker EXCEPT !.pc = "sleep"]
    /\ UNCHANGED <<market, db_type, faults, rsi_signals, user_settings, config, bot,
                   pending, notified, analysed, web, log, fn>>

\* The sleep between cycles ends: "while self.is_running" starts the next cycle
SleepDone ==
    /\ worker.pc = "sleep"
    /\ worker.cycles < MaxCycles
    /\ now' = now + 2 * CHECK_INTERVAL
    /\ worker' = IF bot.is_running THEN BeginCycle(bot, worker)
                 ELSE [worker EXCEPT !.pc = "stopped"]
    /\ analysed' = <<>>
    /\ UNCHANGED <<market, db_type, faults, rsi_signals, user_settings, config, bot,
                   pending, notified, web, log, fn>>

\* Variant of Stop: stop() runs, but the coroutine of start() stays at its await
StopFlagOnly ==
    /\ worker.pc \in {"fetch", "notify", "pace", "sleep"}
    /\ bot.is_running
    /\ bot' = [bot EXCEPT !.is_running = FALSE]
    /\ web' = [web EXCEPT !.up = FALSE]
    /\ UNCHANGED <<now, market, db_type, faults, rsi_signals, user_settings, config,
                   worker, pending, notified, analysed, log, fn>>

\* The external stop signal (KeyboardInterrupt, cancellation of the task),
\* delivered at an await of start(): no "except Exception" catches it, and
\* the finally clause runs stop().
Stop ==
    /\ worker.pc \in {"fetch", "notify", "pace", "sleep"}
    /\ bot' = [bot EXCEPT !.is_running = FALSE]
    /\ web' = [web EXCEPT !.up = FALSE]
    /\ worker' = [worker EXCEPT !.pc = "stopped"]
    /\ pending' = <<>>
    /\ UNCHANGED <<now, market, db_type, faults, rsi_signals, user_settings, config,
                   notified, analysed, log, fn>>

(* ------------------------------------------------------------------ *)
(* web_interface.py: POST /api/settings                               *)
(* ------------------------------------------------------------------ *)

\* str.upper on the characters the requests use
Upper(c) ==
    CASE c = "b" -> "B" [] c = "t" -> "T" [] c = "c" -> "C" [] c = "e" -> "E"
      [] c = "h" -> "H" [] c = "u" -> "U" [] c = "s" -> "S" [] c = "d" -> "D"
      [] OTHER -> c

UpperAll(s) == [j \in 1..Len(s) |-> Upper(s[j])]

\* str.strip
RECURSIVE LStrip(_)
LStrip(s) == IF s # <<>> /\ Head(s) = " " THEN LStrip(Tail(s)) ELSE s
RECURSIVE RStrip(_)
RStrip(s) == IF s # <<>> /\ s[Len(s)] = " " THEN RStrip(SubSeq(s, 1, Len(s) - 1)) ELSE s
Strip(s) == RStrip(LStrip(s))

\* str.endswith
EndsWith(s, suffix) ==
    /\ Len(s) >= Len(suffix)
    /\ SubSeq(s, Len(s) - Len(suffix) + 1, Len(s)) = suffix

\* save_settings_api, lines 221-225: one symbol, stripped, upper-cased and
\* given its USDT suffix
NormaliseSymbol(raw) ==
    LET symbol == UpperAll(Strip(raw))
    IN  IF symbol = <<>> THEN <<>>
        ELSE IF ~EndsWith(symbol, USDT) THEN symbol \o USDT ELSE symbol

\* save_settings_api, lines 219-229: [ok, valid_symbols]; ok = FALSE is the
\* 400 response for a symbol of invalid format
RECURSIVE ValidSymbols(_, _)
ValidSymbols(symbols, valid) ==
    IF symbols = <<>> THEN [ok |-> TRUE, valid |-> valid]
    ELSE LET symbol == NormaliseSymbol(Head(symbols))
         IN  IF symbol = <<>> THEN ValidSymbols(Tail(symbols), valid)
             ELSE IF Len(symbol) >= 5 /\ EndsWith(symbol, USDT)
                  THEN ValidSymbols(Tail(symbols), Append(valid, symbol))
                  ELSE [ok |-> FALSE, valid |-> valid]

\* Variant of ValidationStatus: without the test of the timeframe
ValidationStatusAnyTimeframe(req) ==
    LET symbols == IF req.has_symbols THEN req.symbols ELSE ALL_DEFAULT_SYMBOLS
        checked == ValidSymbols(symbols, <<>>)
    IN  IF ~req.symbols_is_list \/ symbols = <<>> THEN 400
        ELSE IF ~checked.ok THEN 400
        ELSE IF checked.valid = <<>> THEN 400
        ELSE 0

\* The HTTP status save_settings_api answers a request body with, before it
\* touches the store: 0 when the request passes validation
ValidationStatus(req) ==
    LET symbols == IF req.has_symbols THEN req.symbols ELSE ALL_DEFAULT_SYMBOLS
        timeframe == IF req.has_timeframe THEN req.timeframe ELSE DEFAULT_TIMEFRAME
        checked == ValidSymbols(symbols, <<>>)
    IN  IF ~req.symbols_is_list \/ symbols = <<>> THEN 400
        ELSE IF ~checked.ok THEN 400
        ELSE IF checked.valid = <<>> THEN 400
        ELSE IF timeframe \notin AVAILABLE_TIMEFRAMES THEN 400
        ELSE 0

\* Request bodies the dashboard sends
raw_btc == <<"b", "t", "c">>
raw_eth_usdt == <<" ">> \o <<"E", "T", "H">> \o USDT
raw_usdt == <<"u", "s", "d", "t">>
RequestSymbolLists == {<<raw_eth_usdt, raw_btc>>, <<raw_usdt>>, <<>>}
RequestTimeframes == {"1h", "7m"}
SaveRequests ==
    [has_symbols : {TRUE}, symbols_is_list : {TRUE}, symbols : RequestSymbolLists,
     has_timeframe : {TRUE}, timeframe : RequestTimeframes, thresholds : {<<>>}]

\* One request body a run is about, held in fn: the lists above, a list of
\* one blank string, a list that names one symbol twice, bodies whose
\* "symbols" is not a list, and a body that also names thresholds
\* (<<rsi_oversold, rsi_overbought>>; <<>> when the body names none)
raw_blank == <<" ">>
SaveCalls ==
    [op : {"save_settings_api"},
     request : [has_symbols : {TRUE}, symbols_is_list : BOOLEAN,
                symbols : RequestSymbolLists \cup {<<raw_blank>>, <<raw_btc, BTCUSDT>>},
                has_timeframe : {TRUE}, timeframe : RequestTimeframes,
                thresholds : {<<>>}]
               \cup [has_symbols : {TRUE}, symbols_is_list : {TRUE},
                     symbols : {<<raw_eth_usdt, raw_btc>>},
                     has_timeframe : {TRUE}, timeframe : {"1h"},
                     thresholds : {<<20, 80>>}]]

\* Variant of SavedThresholds: thresholds the body names are taken
SavedThresholdsFromBody(req, c) ==
    IF req.thresholds # <<>>
    THEN [rsi_oversold |-> req.thresholds[1], rsi_overbought |-> req.thresholds[2]]
    ELSE [rsi_oversold |-> c.RSI_OVERSOLD, rsi_overbought |-> c.RSI_OVERBOUGHT]

\* save_settings_api, lines 238-239: the thresholds handed to
\* save_user_settings are those of the module config
SavedThresholds(req, c) ==
    [rsi_oversold |-> c.RSI_OVERSOLD, rsi_overbought |-> c.RSI_OVERBOUGHT]

\* The bodies the next request may have
PostedRequests == IF fn.op = "save_settings_api" THEN {fn.request} ELSE SaveRequests

\* save_settings_api after "await request.json()": nothing in it suspends
SaveSettings ==
    /\ web.up
    /\ WorkerSuspended
    /\ web.saves < MaxSaves
    /\ \E req \in PostedRequests, write_ok \in Outcomes, read_ok \in Outcomes :
          LET status == ValidationStatus(req)
              valid_symbols == ValidSymbols(req.symbols, <<>>).valid
              levels == SavedThresholds(req, config)
              saved == SaveUserSettings(user_settings, valid_symbols, req.timeframe,
                                        levels.rsi_oversold, levels.rsi_overbought,
                                        write_ok)
              s == GetUserSettings(saved, read_ok)
              failed == Failed(<<write_ok, read_ok>>)
          IN  /\ failed <= faults
              /\ (status # 0 => write_ok)
              /\ (~write_ok => read_ok)
              /\ faults' = faults - failed
              /\ IF status # 0
                 THEN /\ web' = [web EXCEPT !.saves = @ + 1, !.status = status]
                      /\ UNCHANGED <<user_settings, bot, config, log>>
                 ELSE IF ~write_ok
                 THEN /\ web' = [web EXCEPT !.saves = @ + 1, !.status = 500]
                      /\ UNCHANGED <<user_settings, bot, config, log>>
                 ELSE /\ web' = [web EXCEPT !.saves = @ + 1, !.status = 200]
                      /\ user_settings' = saved
                      /\ bot' = BotAfterUpdate(bot, s)
                      /\ config' = ConfigAfterUpdate(config, s)
                      /\ log' = IF s.present THEN log ELSE log \cup {"settings"}
    /\ UNCHANGED <<now, market, db_type, rsi_signals, worker, pending,
                   notified, analysed, fn>>

(* ------------------------------------------------------------------ *)
(* Single calls of the pure functions                                 *)
(* ------------------------------------------------------------------ *)

\* Oscillator values around both thresholds
RsiSamples == {RSI_OVERSOLD - 1, RSI_OVERSOLD, RSI_OVERSOLD + 1, 50,
               RSI_OVERBOUGHT - 1, RSI_OVERBOUGHT, RSI_OVERBOUGHT + 1}

FnIdle == [op |-> "none"]

(* hybrid_connector.py *)

\* The connectors dictionary of get_historical_data
ConnectorNames == {"kraken", "coingecko", "yahoo", "binance"}

\* What one connector's get_historical_data does when it is awaited: it
\* raises, returns None, returns a frame without rows, or returns a frame
SourceAnswers == {"raises", "none", "empty", "frame"}

\* self.priority_map.get(symbol, [...]): the list of the symbol, or the
\* default list for a symbol the map does not name
DefaultPriority == <<"binance", "kraken", "yahoo", "coingecko">>
PriorityList(symbol) ==
    CASE symbol = BTCUSDT -> <<"binance", "kraken", "yahoo", "coingecko">>
      [] symbol = DOGEUSDT -> <<"binance", "kraken", "yahoo", "coingecko">>
      [] symbol = PEPEUSDT -> <<"binance", "kraken", "coingecko", "yahoo">>
      [] symbol = SUIUSDT -> <<"binance", "coingecko", "yahoo", "kraken">>
      [] symbol = BIGTIMEUSDT -> <<"binance", "yahoo", "coingecko">>
      [] symbol = ALTUSDT -> <<"binance", "yahoo", "coingecko">>
      [] symbol = WLDUSDT -> <<"binance", "yahoo", "coingecko">>
      [] OTHER -> DefaultPriority

NoSource == ""

\* Variant of TryConnectors: a connector that raises ends the chain
RECURSIVE TryConnectorsUntilRaise(_, _, _)
TryConnectorsUntilRaise(priority_list, answers, tried) ==
    IF priority_list = <<>> THEN [source |-> NoSource, tried |-> tried]
    ELSE LET connector_name == Head(priority_list)
         IN  IF connector_name \notin ConnectorNames
             THEN TryConnectorsUntilRaise(Tail(priority_list), answers, tried)
             ELSE IF answers[connector_name] = "frame"
             THEN [source |-> connector_name, tried |-> Append(tried, connector_name)]
             ELSE IF answers[connector_name] = "raises"
             THEN [source |-> NoSource, tried |-> Append(tried, connector_name)]
             ELSE TryConnectorsUntilRaise(Tail(priority_list), answers,
                                          Append(tried, connector_name))

\* The for loop of get_historical_data over the rest of the priority list:
\* [source |-> the connector whose frame is returned, NoSource when None is
\* returned, tried |-> the connectors awaited, in order]
RECURSIVE TryConnectors(_, _, _)
TryConnectors(priority_list, answers, tried) ==
    IF priority_list = <<>> THEN [source |-> NoSource, tried |-> tried]
    ELSE LET connector_name == Head(priority_list)
         IN  IF connector_name \notin ConnectorNames
             THEN TryConnectors(Tail(priority_list), answers, tried)
             ELSE IF answers[connector_name] = "frame"
             THEN [source |-> connector_name, tried |-> Append(tried, connector_name)]
             ELSE TryConnectors(Tail(priority_list), answers,
                                Append(tried, connector_name))

\* HybridConnector.get_historical_data
GetHistoricalData(symbol, answers) == TryConnectors(PriorityList(symbol), answers, <<>>)

\* Symbols asked for: one of each kind of priority list, and one the map
\* does not name
ETHUSDT == <<"E", "T", "H">> \o USDT
FetchedSymbols == {BTCUSDT, SUIUSDT, BIGTIMEUSDT, ETHUSDT}

\* An adjacent pair about to go through lines 41-51 of analyze_rsi_signals
\* or through lines 171-189 of analyze_historical_rsi_signals, a signal
\* about to go through should_notify, or a symbol about to be fetched
\* through the hybrid connector, with what each connector will answer
FnCalls ==
    [op : {"analyze_pair", "historical_pair"},
     previous_rsi : RsiSamples, current_rsi : RsiSamples]
    \cup [op : {"should_notify"}, signal_type : SignalTypes]
    \cup [op : {"get_historical_data"}, symbol : FetchedSymbols,
          answers : [ConnectorNames -> SourceAnswers]]

\* analyze_rsi_signals, lines 41-51, on the pair of the call
DetectLive ==
    /\ fn.op = "analyze_pair"
    /\ fn' = [op |-> "analyze_pair_done",
              previous_rsi |-> fn.previous_rsi,
              current_rsi |-> fn.current_rsi,
              signal_type |-> LiveSignalType(fn.previous_rsi, fn.current_rsi,
                                             config.RSI_OVERSOLD, config.RSI_OVERBOUGHT)]
    /\ UNCHANGED <<now, market, db_type, faults, rsi_signals, user_settings, config,
                   bot, worker, pending, notified, analysed, web, log>>

\* analyze_historical_rsi_signals, lines 171-189, on the pair of the call
DetectHistorical ==
    /\ fn.op = "historical_pair"
    /\ fn' = [op |-> "historical_pair_done",
              previous_rsi |-> fn.previous_rsi,
              current_rsi |-> fn.current_rsi,
              signal_type |-> HistoricalSignalType(fn.previous_rsi, fn.current_rsi,
                                                   config.RSI_OVERSOLD,
                                                   config.RSI_OVERBOUGHT)]
    /\ UNCHANGED <<now, market, db_type, faults, rsi_signals, user_settings, config,
                   bot, worker, pending, notified, analysed, web, log>>

\* HybridConnector.get_historical_data on the symbol of the call
FetchHybrid ==
    /\ fn.op = "get_historical_data"
    /\ \E res \in {GetHistoricalData(fn.symbol, fn.answers)} :
          fn' = [op |-> "get_historical_data_done",
                 symbol |-> fn.symbol,
                 answers |-> fn.answers,
                 source |-> res.source,
                 tried |-> res.tried]
    /\ UNCHANGED <<now, market, db_type, faults, rsi_signals, user_settings, config,
                   bot, worker, pending, notified, analysed, web, log>>

\* should_notify on the signal of the call
ShouldNotifyCall ==
    /\ fn.op = "should_notify"
    /\ \E read_ok \in Outcomes :
          /\ faults' = faults - Failed(<<read_ok>>)
          /\ fn' = [op |-> "should_notify_done",
                    signal_type |-> fn.signal_type,
                    read_ok |-> read_ok,
                    result |-> ShouldNotify(GetUserSettings(user_settings, read_ok),
                                            fn.signal_type)]
    /\ UNCHANGED <<now, market, db_type, rsi_signals, user_settings, config,
                   bot, worker, pending, notified, analysed, web, log>>

(* ------------------------------------------------------------------ *)
(* web_interface.py: the read handlers                                *)
(* ------------------------------------------------------------------ *)

\* str(n) of a natural number
DecimalDigits == <<"0", "1", "2", "3", "4", "5", "6", "7", "8", "9">>
RECURSIVE Str(_)
Str(n) ==
    IF n < 10 THEN <<DecimalDigits[n + 1]>>
    ELSE Str(n \div 10) \o <<DecimalDigits[(n % 10) + 1]>>

\* database.get_recent_signals(first): the one positional argument binds the
\* parameter symbol, and limit keeps its default. "if symbol:" is false for
\* 0. A number bound to "symbol = ?" is compared as its text by SQLite (the
\* column has TEXT affinity); on PostgreSQL "character varying = integer"
\* does not exist, the query raises and the except branch returns [].
GetRecentSignalsPositional(rows, first, ok) ==
    IF first = 0
    THEN GetRecentSignals(rows, NoSymbol, NoTimeframe, NO_HOURS_BACK,
                          DEFAULT_QUERY_LIMIT, ok)
    ELSE IF db_type = "postgresql" THEN <<>>
    ELSE GetRecentSignals(rows, Str(first), NoTimeframe, NO_HOURS_BACK,
                          DEFAULT_QUERY_LIMIT, ok)

\* The data attributes an RSIBot has once start() has created the server
\* task (its methods are update_settings, send_telegram_notification,
\* analyze_symbol, run_analysis_cycle, start and stop)
RSIBotAttributes ==
    {"config", "is_running", "database", "hybrid_connector", "rsi_analyzer",
     "telegram_bot", "web_interface", "current_symbols", "current_timeframe",
     "current_oversold", "current_overbought", "web_server_task"}

\* hasattr(self.rsi_bot, name)
HasAttr(name) == name \in RSIBotAttributes

\* get_historical_signals_api, line 149:
\* int(timeframe.replace('m', '').replace('h', '*60').replace('d', '*1440'))
\* is a number for the minute timeframes and raises ValueError for the others
LimitParses(timeframe) == timeframe \in {"1m", "3m", "5m", "15m", "30m"}

\* Candles in the frame a backfill is run on
BackfillCandles == PatternLen + 1

\* The requests of one run: GET /api/signals?limit=n (100 when the parameter
\* is absent), GET /api/historical/{symbol}/{days}, a direct call of
\* analyze_historical_rsi_signals on a frame of n candles, and two calls in a
\* row of analyze_rsi_signals on one frame of n candles
QueryLimits == {0, 1, DEFAULT_QUERY_LIMIT}
HistoryDays == {0, 2, MAX_HISTORY_DAYS + 1}
DashCalls ==
    [op : {"get_signals_api"}, limit : QueryLimits]
    \cup [op : {"get_historical_signals_api"}, symbol : {BTCUSDT}, days : HistoryDays]
    \cup [op : {"analyze_historical"}, symbol : {BTCUSDT},
          n : {1, BackfillCandles}, days_back : {0, 2}]
    \cup [op : {"analyze_rsi_signals"}, symbol : {BTCUSDT},
          n : {MIN_SYMBOL_CANDLES, MIN_LIVE_CANDLES}]

\* get_signals_api
GetSignalsApi ==
    /\ web.up
    /\ WorkerSuspended
    /\ fn.op = "get_signals_api"
    /\ \E read_ok \in Outcomes :
          /\ faults' = faults - Failed(<<read_ok>>)
          /\ fn' = [op |-> "get_signals_api_done", limit |-> fn.limit, status |-> 200,
                    body |-> GetRecentSignalsPositional(rsi_signals, fn.limit, read_ok)]
    /\ UNCHANGED <<now, market, db_type, rsi_signals, user_settings, config,
                   bot, worker, pending, notified, analysed, web, log>>

\* get_historical_signals_api
GetHistoricalSignalsApi ==
    /\ web.up
    /\ WorkerSuspended
    /\ fn.op = "get_historical_signals_api"
    /\ \E read_ok \in Outcomes :
          LET days == Min(fn.days, MAX_HISTORY_DAYS)
              initialised == HasAttr("kraken_connector")
              s == GetUserSettings(user_settings, initialised /\ read_ok)
              timeframe == IF s.present THEN s.timeframe ELSE DEFAULT_TIMEFRAME
              df == [tf |-> timeframe, k |-> NowSec \div TfSeconds(timeframe),
                     n |-> BackfillCandles, rsi_column |-> TRUE]
          IN  /\ (~initialised => read_ok)
              /\ faults' = faults - Failed(<<read_ok>>)
              /\ \E res \in {IF initialised /\ LimitParses(timeframe)
                              THEN AnalyzeHistoricalRsiSignals(rsi_signals, fn.symbol,
                                                               timeframe, df, days)
                              ELSE [rows |-> rsi_signals, signals |-> <<>>]} :
                    /\ rsi_signals' = res.rows
                    /\ fn' = [op |-> "get_historical_signals_api_done",
                              symbol |-> fn.symbol, days |-> days,
                              status |-> IF initialised /\ LimitParses(timeframe)
                                         THEN 200 ELSE 500,
                              signals |-> res.signals]
    /\ UNCHANGED <<now, market, db_type, user_settings, config,
                   bot, worker, pending, notified, analysed, web, log>>

\* analyze_historical_rsi_signals on the frame the market gives now
AnalyzeHistorical ==
    /\ fn.op = "analyze_historical"
    /\ LET df == [tf |-> bot.current_timeframe,
                  k |-> NowSec \div TfSeconds(bot.current_timeframe),
                  n |-> fn.n, rsi_column |-> TRUE]
       IN  \E res \in {AnalyzeHistoricalRsiSignals(rsi_signals, fn.symbol,
                                                   bot.current_timeframe, df,
                                                   fn.days_back)} :
              /\ rsi_signals' = res.rows
              /\ fn' = [op |-> "analyze_historical_done", symbol |-> fn.symbol,
                        n |-> fn.n, days_back |-> fn.days_back,
                        signals |-> res.signals]
    /\ UNCHANGED <<now, market, db_type, faults, user_settings, config,
                   bot, worker, pending, notified, analysed, web, log>>

\* analyze_rsi_signals called twice in a row on the frame the market gives
\* now: the second call finds the store as the first call left it
AnalyzeTwice ==
    /\ fn.op = "analyze_rsi_signals"
    /\ LET df == [tf |-> bot.current_timeframe,
                  k |-> NowSec \div TfSeconds(bot.current_timeframe),
                  n |-> fn.n, rsi_column |-> TRUE]
       IN  \E first \in {AnalyzeRsiSignals(rsi_signals, fn.symbol,
                                           bot.current_timeframe, df, TRUE, TRUE)} :
           \E second \in {AnalyzeRsiSignals(first.rows, fn.symbol,
                                            bot.current_timeframe, df, TRUE, TRUE)} :
              /\ rsi_signals' = second.rows
              /\ fn' = [op |-> "analyze_rsi_signals_done", symbol |-> fn.symbol,
                        n |-> fn.n, df |-> df,
                        first |-> first.signals, second |-> second.signals]
    /\ UNCHANGED <<now, market, db_type, faults, user_settings, config,
                   bot, worker, pending, notified, analysed, web, log>>

(* ------------------------------------------------------------------ *)
(* rsi_bot.py: the process is stopped and started again               *)
(* ------------------------------------------------------------------ *)

\* RSIBot.__init__: the fields of a newly constructed bot
RSIBotInit ==
    [is_running |-> FALSE,
     current_symbols |-> DEFAULT_SYMBOLS,
     current_timeframe |-> DEFAULT_TIMEFRAME,
     current_oversold |-> RSI_OVERSOLD,
     current_overbought |-> RSI_OVERBOUGHT]

\* The module config as imported by a new process
ConfigInit == [RSI_OVERSOLD |-> RSI_OVERSOLD, RSI_OVERBOUGHT |-> RSI_OVERBOUGHT]

\* The process is stopped during the sleep between two cycles and main()
\* is run again: a new RSIBot is constructed over the same store, and
\* start() is about to be called. fn keeps what the stopped worker held in
\* memory, which is what its next cycle would have used.
RestartIdle == [op |-> "restart", done |-> FALSE]
Restart ==
    /\ worker.pc = "sleep"
    /\ fn = RestartIdle
    /\ fn' = [op |-> "restart", done |-> TRUE,
              symbols |-> bot.current_symbols,
              timeframe |-> bot.current_timeframe,
              config |-> config]
    /\ bot' = RSIBotInit
    /\ config' = ConfigInit
    /\ worker' = [worker EXCEPT !.pc = "init", !.symbols = <<>>, !.idx = 0,
                                !.req_tf = NoTimeframe]
    /\ pending' = <<>>
    /\ analysed' = <<>>
    /\ web' = [web EXCEPT !.up = FALSE]
    /\ UNCHANGED <<now, market, db_type, faults, rsi_signals, user_settings,
                   notified, log>>

(* ------------------------------------------------------------------ *)
(* Initial states and specifications                                  *)
(* ------------------------------------------------------------------ *)

\* Seconds after Epoch at which the process is started
StartOffsets == {0, 12, 100}

\* Timeframes an earlier accepted save may have left in the settings row
StoredTimeframes == {"5m", "1h"}

\* The state after RSIBot() is constructed on a store that holds no signal.
InitCommon ==
    /\ rsi_signals = <<>>
    /\ config = [RSI_OVERSOLD |-> RSI_OVERSOLD, RSI_OVERBOUGHT |-> RSI_OVERBOUGHT]
    /\ bot = [is_running |-> FALSE,
              current_symbols |-> DEFAULT_SYMBOLS,
              current_timeframe |-> DEFAULT_TIMEFRAME,
              current_oversold |-> RSI_OVERSOLD,
              current_overbought |-> RSI_OVERBOUGHT]
    /\ worker = [pc |-> "init", symbols |-> <<>>, idx |-> 0, req_tf |-> NoTimeframe,
                 cycles |-> 0]
    /\ pending = <<>>
    /\ notified = <<>>
    /\ analysed = <<>>
    /\ web = [up |-> FALSE, saves |-> 0, status |-> 0]
    /\ log = {}

\* The detection pipeline on every market, with a store that does not fail
Init ==
    /\ InitCommon
    /\ now \in {2 * (Epoch + off) : off \in StartOffsets}
    /\ market \in [0..(PatternLen - 1) -> RSIValues]
    /\ db_type \in {"sqlite", "postgresql"}
    /\ faults = 0
    /\ \E tf \in StoredTimeframes, flag \in BOOLEAN :
          user_settings = [DefaultSettingsRow EXCEPT !.timeframe = tf,
                                                     !.notifications_enabled = flag]
    /\ fn = FnIdle

Next ==
    \/ Start
    \/ AnalyzeSymbol
    \/ NotifyNext
    \/ PaceDone
    \/ SleepDone

Spec == Init /\ [][Next]_vars

\* A market that enters the overbought zone once in every PatternLen
\* candles, at the newest candle of the first window
SchedMarket == [k \in 0..(PatternLen - 1) |-> IF k = 0 THEN RSI_OVERBOUGHT ELSE 50]

\* The worker, the dashboard's save-settings requests and the stop signal
\* side by side, with a store and a data source that may fail
InitSched ==
    /\ InitCommon
    /\ now = 2 * (Epoch + 100)
    /\ market = SchedMarket
    /\ db_type = "sqlite"
    /\ faults = MaxFaults
    /\ user_settings = DefaultSettingsRow
    /\ fn = FnIdle

NextSched ==
    \/ Start
    \/ AnalyzeSymbol
    \/ NotifyNext
    \/ PaceDone
    \/ SleepDone
    \/ SaveSettings
    \/ Stop

SpecSched == InitSched /\ [][NextSched]_vars

NextLoop ==
    \/ Start
    \/ AnalyzeSymbol
    \/ NotifyNext
    \/ PaceDone
    \/ SleepDone
    \/ Stop

\* The worker loop and the stop signal alone, with a store and a data source
\* that may fail. The event loop runs a coroutine that is ready, and a sleep
\* runs out; the stop signal may never come.
SpecLoop ==
    /\ InitSched
    /\ [][NextLoop]_vars
    /\ WF_vars(Start)
    /\ WF_vars(AnalyzeSymbol)
    /\ WF_vars(NotifyNext)
    /\ WF_vars(PaceDone)
    /\ WF_vars(SleepDone)

\* One call of a pure function on each of its inputs
InitFn ==
    /\ InitCommon
    /\ now = 2 * Epoch
    /\ market = SchedMarket
    /\ db_type \in {"sqlite", "postgresql"}
    /\ faults = MaxFaults
    /\ \E flag \in BOOLEAN :
          user_settings = [DefaultSettingsRow EXCEPT !.notifications_enabled = flag]
    /\ fn \in FnCalls

NextFn ==
    \/ DetectLive
    \/ DetectHistorical
    \/ FetchHybrid
    \/ ShouldNotifyCall

SpecFn == InitFn /\ [][NextFn]_vars

\* The worker on every market with a store that does not fail, and one
\* request to the dashboard (or one call of an analysis) that comes at any
\* moment of the run
InitDash ==
    /\ InitCommon
    /\ now = 2 * (Epoch + 100)
    /\ market \in [0..(PatternLen - 1) -> RSIValues]
    /\ db_type \in {"sqlite", "postgresql"}
    /\ faults = 0
    /\ user_settings = DefaultSettingsRow
    /\ fn \in DashCalls

NextDash ==
    \/ Start
    \/ AnalyzeSymbol
    \/ NotifyNext
    \/ PaceDone
    \/ SleepDone
    \/ GetSignalsApi
    \/ GetHistoricalSignalsApi
    \/ AnalyzeHistorical
    \/ AnalyzeTwice

SpecDash == InitDash /\ [][NextDash]_vars

\* The worker and one save-settings request, whose body the run fixes, with
\* a store and a data source that may fail
InitSave ==
    /\ InitCommon
    /\ now = 2 * (Epoch + 100)
    /\ market = SchedMarket
    /\ db_type = "sqlite"
    /\ faults = MaxFaults
    /\ user_settings = DefaultSettingsRow
    /\ fn \in SaveCalls

NextSave ==
    \/ Start
    \/ AnalyzeSymbol
    \/ NotifyNext
    \/ PaceDone
    \/ SleepDone
    \/ SaveSettings

SpecSave == InitSave /\ [][NextSave]_vars

\* The worker and the save-settings requests on either back-end, over a
\* settings row whose notifications flag the operator may have cleared
InitBackends ==
    /\ InitCommon
    /\ now = 2 * (Epoch + 100)
    /\ market = SchedMarket
    /\ db_type \in {"sqlite", "postgresql"}
    /\ faults = MaxFaults
    /\ \E flag \in BOOLEAN :
          user_settings = [DefaultSettingsRow EXCEPT !.notifications_enabled = flag]
    /\ fn = FnIdle

SpecBackends == InitBackends /\ [][NextSave]_vars

\* The worker and one restart of the process, on a store whose settings row
\* an earlier accepted save may have written, with a store and a data source
\* that may fail
InitRestart ==
    /\ InitCommon
    /\ now = 2 * (Epoch + 100)
    /\ market = SchedMarket
    /\ db_type = "sqlite"
    /\ faults = MaxFaults
    /\ \E tf \in StoredTimeframes :
          user_settings = [DefaultSettingsRow EXCEPT !.timeframe = tf]
    /\ fn = RestartIdle

NextRestart ==
    \/ Start
    \/ AnalyzeSymbol
    \/ NotifyNext
    \/ PaceDone
    \/ SleepDone
    \/ Restart

SpecRestart == InitRestart /\ [][NextRestart]_vars

(* ------------------------------------------------------------------ *)
(* Properties                                                         *)
(* ------------------------------------------------------------------ *)

SameKind(a, b) ==
    /\ a.symbol = b.symbol
    /\ a.timeframe = b.timeframe
    /\ a.signal_type = b.signal_type

\* C1: the store never holds two events with the same symbol, timeframe,
\* signal_type and candle timestamp, however many cycles see the candle pair.
C1_OneEventPerCrossing ==
    \A i, j \in 1..Len(rsi_signals) :
        (i < j /\ SameKind(rsi_signals[i], rsi_signals[j]))
            => rsi_signals[i].timestamp # rsi_signals[j].timestamp

\* C2: no two persisted events with the same symbol, timeframe and
\* signal_type have timestamps closer than the duplicate window to each other.
C2_SameKindEventsWindowApart ==
    \A i, j \in 1..Len(rsi_signals) :
        (i < j /\ SameKind(rsi_signals[i], rsi_signals[j]))
            => \/ rsi_signals[i].timestamp - rsi_signals[j].timestamp >= DUPLICATE_WINDOW
               \/ rsi_signals[j].timestamp - rsi_signals[i].timestamp >= DUPLICATE_WINDOW

\* C3 (its suppression half): when an event of kind K for (symbol, timeframe)
\* at time T is in the store, no call persists a candidate of the same kind
\* for the same (symbol, timeframe) at a later time T + D with 0 < D < W.
C3_CandidateInsideWindowSuppressed ==
    [][\A i \in 1..Len(rsi_signals), j \in (Len(rsi_signals) + 1)..Len(rsi_signals') :
           SameKind(rsi_signals[i], rsi_signals'[j])
               => ~(/\ rsi_signals'[j].timestamp > rsi_signals[i].timestamp
                    /\ rsi_signals'[j].timestamp - rsi_signals[i].timestamp
                           < DUPLICATE_WINDOW)]_vars

\* The condition the table of signal kinds gives for each kind
TableCondition(kind, previous_rsi, current_rsi, low, high) ==
    CASE kind = "oversold_enter" -> previous_rsi > low /\ current_rsi <= low
      [] kind = "oversold_exit" -> previous_rsi <= low /\ current_rsi > low
      [] kind = "overbought_enter" -> previous_rsi < high /\ current_rsi >= high
      [] kind = "overbought_exit" -> previous_rsi >= high /\ current_rsi < high

CallFrame == [tf |-> worker.req_tf, k |-> NowSec \div TfSeconds(worker.req_tf),
              n |-> MIN_LIVE_CANDLES, rsi_column |-> TRUE]

\* C5 as stated: one live call returns at most one event.
C5_AtMostOneEventPerCall == Len(pending) <= 1

\* C5, amended: one live call examines the last four adjacent pairs of the
\* window, oldest first, and returns at most one event per pair: at most four
\* events, each stamped with one of the last four candles, in candle order.
C5_AtMostOneEventPerPair ==
    worker.pc = "notify" =>
        /\ Len(pending) <= LOOKBACK_CANDLES - 1
        /\ \A j \in 1..Len(pending) :
               \E i \in 1..(LOOKBACK_CANDLES - 1) :
                   pending[j].timestamp = DfTime(CallFrame, i)
        /\ \A j \in 1..(Len(pending) - 1) :
               pending[j].timestamp < pending[j + 1].timestamp

\* One live call returned four events.
C5_FourEventsInOneCall ==
    /\ worker.pc = "notify"
    /\ Len(pending) = LOOKBACK_CANDLES - 1

\* C6 as stated: should_notify returns false whenever the stored flag is
\* false; when the flag is true it returns true iff the kind is an entry kind.
C6_FlagAndKindDecide ==
    fn.op = "should_notify_done" =>
        IF user_settings.notifications_enabled
        THEN fn.result <=> fn.signal_type \in {"oversold_enter", "overbought_enter"}
        ELSE ~fn.result

\* C6, amended: should_notify returns true iff the settings row could be
\* read, its flag is true and the kind is an entry kind; it returns false
\* when the flag is false and when the row could not be read.
C6_ReadableFlagAndKindDecide ==
    fn.op = "should_notify_done" =>
        (fn.result <=> /\ fn.read_ok
                       /\ user_settings.notifications_enabled
                       /\ fn.signal_type \in {"oversold_enter", "overbought_enter"})

\* should_notify returned false for an entry kind although the stored flag
\* is true: the settings could not be read.
C6_UnreadableSettingsSilence ==
    /\ fn.op = "should_notify_done"
    /\ user_settings.notifications_enabled
    /\ fn.signal_type = "oversold_enter"
    /\ ~fn.read_ok
    /\ ~fn.result

\* C7: within one cycle every symbol is fetched and analysed with the
\* timeframe and thresholds the cycle's first symbol was fetched with.
C7_OneSnapshotPerCycle ==
    \A i \in 1..Len(analysed) :
        /\ analysed[i].fetch_timeframe = analysed[1].fetch_timeframe
        /\ analysed[i].timeframe = analysed[1].fetch_timeframe
        /\ analysed[i].oversold = analysed[1].oversold
        /\ analysed[i].overbought = analysed[1].overbought

\* A step in which the worker starts a cycle
CycleStarts == worker'.cycles = worker.cycles + 1

\* The part of WatchConfig the worker keeps in memory, and the same as stored
BotConfig(b) == <<b.current_symbols, b.current_timeframe,
                  b.current_oversold, b.current_overbought>>
StoredConfig(row) == <<row.symbols, row.timeframe, row.rsi_oversold, row.rsi_overbought>>

C9_FailureContained ==
    /\ worker.pc = "fetch" => Len(analysed) = worker.idx - 1
    /\ worker.pc \in {"notify", "pace"} => Len(analysed) = worker.idx
    /\ worker.pc = "sleep" => Len(analysed) = Len(worker.symbols)
    /\ \A i \in 1..Len(analysed) : analysed[i].symbol = worker.symbols[i]

\* A cycle is over in which the first symbol failed and the next one was
\* analysed.
C9_LaterSymbolAnalysed ==
    /\ worker.pc = "sleep"
    /\ Len(analysed) >= 2
    /\ analysed[1].outcome = "error"
    /\ analysed[2].outcome = "analysed"

\* C10: the worker loop ends only by the stop signal; a cycle that has begun
\* returns to idle (or is stopped), and from idle the next cycle starts (or
\* the worker is stopped), for as many cycles as the model looks at.
C10_LoopEndsOnlyOnStop ==
    /\ [][worker'.pc = "stopped" => (worker.pc = "stopped" \/ Stop)]_vars
    /\ (worker.pc \in {"fetch", "notify", "pace"}) ~> (worker.pc \in {"sleep", "stopped"})
    /\ (worker.pc = "sleep" /\ worker.cycles < MaxCycles)
           ~> (worker.pc \in {"fetch", "stopped"})

\* A new cycle has started after a cycle in which a symbol failed.
C10_NextCycleAfterFailure ==
    /\ worker.cycles >= 2
    /\ worker.pc = "fetch"
    /\ analysed = <<>>
    /\ "error" \in log
    /\ bot.is_running

\* C11: once the stop signal has set is_running to false the worker is out
\* of its loop at once (the await it was in is abandoned), and from then on no
\* cycle starts and no symbol is analysed.
C11_NoCycleAfterStop ==
    [][/\ (~bot'.is_running => worker'.pc \in {"init", "stopped"})
       /\ (~bot.is_running /\ worker.pc # "init"
              => /\ worker'.cycles = worker.cycles
                 /\ analysed' = analysed
                 /\ rsi_signals' = rsi_signals)]_vars

\* The stop signal came after a whole cycle, when a further cycle could
\* still have started.
C11_StoppedBetweenCycles ==
    /\ worker.pc = "stopped"
    /\ ~bot.is_running
    /\ worker.cycles >= 1
    /\ worker.cycles < MaxCycles
    /\ Len(analysed) = Len(worker.symbols)

\* C12: a backfill analysis leaves the store as it was, hands nothing to the
\* notifier, and every crossing it returns carries historical = true.
C12_BackfillReadOnly ==
    [][fn.op = "analyze_historical" /\ fn'.op = "analyze_historical_done"
          => /\ rsi_signals' = rsi_signals
             /\ notified' = notified
             /\ pending' = pending
             /\ \A j \in 1..Len(fn'.signals) : fn'.signals[j].historical]_vars

\* A backfill found crossings, one of them an exit, beside a store that
\* holds events of the live analysis.
C12_BackfillBesideStore ==
    /\ fn.op = "analyze_historical_done"
    /\ rsi_signals # <<>>
    /\ \E j \in 1..Len(fn.signals) :
          fn.signals[j].signal_type \in {"oversold_exit", "overbought_exit"}

\* A request body as the operator may get it wrong: "symbols" is not a list
\* or is empty, a symbol has an invalid format, no symbol is left, or the
\* timeframe is not one of the supported ones
InvalidFormat(raw) ==
    LET symbol == NormaliseSymbol(raw)
    IN  symbol # <<>> /\ ~(Len(symbol) >= 5 /\ EndsWith(symbol, USDT))

Malformed(req) ==
    \/ ~req.symbols_is_list
    \/ req.symbols = <<>>
    \/ \E j \in 1..Len(req.symbols) : InvalidFormat(req.symbols[j])
    \/ \A j \in 1..Len(req.symbols) : NormaliseSymbol(req.symbols[j]) = <<>>
    \/ req.timeframe \notin AVAILABLE_TIMEFRAMES

\* C13: a malformed save-settings request is answered with an error, and the
\* settings row of the store and the settings held in memory stay as they were.
C13_MalformedRejected ==
    [][web'.saves = web.saves + 1 /\ Malformed(fn.request)
          => /\ web'.status = 400
             /\ user_settings' = user_settings
             /\ bot' = bot
             /\ config' = config]_vars

\* A request whose symbols are all valid and whose timeframe is not supported
\* was answered after the worker's first symbol.
C13_BadTimeframeRejected ==
    /\ web.saves = 1
    /\ web.status = 400
    /\ fn.request.symbols_is_list
    /\ fn.request.symbols = <<raw_eth_usdt, raw_btc>>
    /\ fn.request.timeframe \notin AVAILABLE_TIMEFRAMES
    /\ worker.cycles >= 1

\* C14: GET /api/signals with limit n > 0 answers with events of the store,
\* newest first, at most n of them, and at least one when the store holds one.
C14_RecentEventsReturned ==
    [][fn.op = "get_signals_api" /\ fn'.op = "get_signals_api_done" /\ fn.limit > 0
          => /\ fn'.status = 200
             /\ Len(fn'.body) <= fn.limit
             /\ \A j \in 1..Len(fn'.body) :
                   /\ \E r \in 1..Len(rsi_signals) : rsi_signals[r] = fn'.body[j]
                   /\ j > 1 => fn'.body[j - 1].timestamp >= fn'.body[j].timestamp
             /\ (rsi_signals # <<>> => fn'.body # <<>>)]_vars

\* C15: while the bot runs, GET /api/historical/{symbol}/{days} answers with
\* the crossings the backfill analysis finds, not with an error.
C15_HistoricalAnswered ==
    [][(/\ fn.op = "get_historical_signals_api"
        /\ fn'.op = "get_historical_signals_api_done"
        /\ bot.is_running)
          => /\ fn'.status = 200
             /\ \A j \in 1..Len(fn'.signals) : fn'.signals[j].historical]_vars

\* C16: a dashboard read that arrives while the worker is inside the fetch
\* (or the store operations) of a symbol can be served before the worker is
\* through with that symbol.
C16_ReadServedDuringFetch ==
    (/\ worker.pc = "fetch"
     /\ analysed # <<>>
     /\ web.up
     /\ fn.op = "get_signals_api")
        => ENABLED GetSignalsApi

\* C17: the worker goes through the list of its cycle one symbol after the
\* other, in list order: the position in the list only moves forward by one
\* within a cycle, the symbol analysed is the one at that position, and the
\* events a step appends to the store are events of that symbol.
C17_SymbolListOrder ==
    [][/\ (worker'.cycles = worker.cycles /\ worker.pc # "init"
              => worker'.idx \in {worker.idx, worker.idx + 1})
       /\ (analysed' # analysed /\ analysed' # <<>>
              => /\ worker.pc = "fetch"
                 /\ Len(analysed') = worker.idx
                 /\ SubSeq(analysed', 1, Len(analysed)) = analysed
                 /\ analysed'[worker.idx].symbol = worker.symbols[worker.idx])
       /\ (rsi_signals' # rsi_signals
              => /\ worker.pc = "fetch"
                 /\ Len(rsi_signals') > Len(rsi_signals)
                 /\ SubSeq(rsi_signals', 1, Len(rsi_signals)) = rsi_signals
                 /\ \A r \in (Len(rsi_signals) + 1)..Len(rsi_signals') :
                       rsi_signals'[r].symbol = worker.symbols[worker.idx])]_vars

\* Both symbols of the list gave an event in the first cycle, and the
\* events are in the store in the order of the list.
C17_EventsInListOrder ==
    /\ worker.cycles = 1
    /\ Len(worker.symbols) >= 2
    /\ Len(analysed) = Len(worker.symbols)
    /\ Len(rsi_signals) = Len(worker.symbols)
    /\ \A r \in 1..Len(rsi_signals) : rsi_signals[r].symbol = worker.symbols[r]

\* C18: the same window given to analyze_rsi_signals twice in a row gives
\* the same candidate crossings both times.
C18_LiveDetectionIdempotent ==
    fn.op = "analyze_rsi_signals_done" => fn.second = fn.first

\* C19: for a window of at least two candles with values, the crossing of the
\* final pair is classified: on a store without events a call returns an
\* event of its kind (the one of the final pair, or an earlier one of the
\* window that suppresses it).
C19_FinalPairClassified ==
    [][(/\ fn.op = "analyze_rsi_signals"
        /\ fn'.op = "analyze_rsi_signals_done"
        /\ fn.n >= 2
        /\ rsi_signals = <<>>
        /\ LiveSignalType(DfRsi(fn'.df, 2), DfRsi(fn'.df, 1),
                          config.RSI_OVERSOLD, config.RSI_OVERBOUGHT) # NoSignal)
          => \E j \in 1..Len(fn'.first) :
                fn'.first[j].signal_type =
                    LiveSignalType(DfRsi(fn'.df, 2), DfRsi(fn'.df, 1),
                                   config.RSI_OVERSOLD, config.RSI_OVERBOUGHT)]_vars

\* C20: the symbols of the settings row are pairwise different, and so are
\* the symbols the worker has analysed in its current cycle.
C20_StoredSymbolsDistinct ==
    /\ user_settings.present =>
          \A i, j \in 1..Len(user_settings.symbols) :
              user_settings.symbols[i] = user_settings.symbols[j] => i = j
    /\ \A i, j \in 1..Len(analysed) :
          analysed[i].symbol = analysed[j].symbol => i = j

\* C21: an accepted save-settings request leaves the thresholds of the
\* settings row as they were, whatever the body of the request names.
C21_SaveKeepsThresholds ==
    [][web'.saves = web.saves + 1 /\ web'.status = 200
          => /\ user_settings'.rsi_oversold = user_settings.rsi_oversold
             /\ user_settings'.rsi_overbought = user_settings.rsi_overbought]_vars

\* A request that names thresholds of its own was accepted, its symbols and
\* timeframe are in the settings row, and the row's thresholds are the old ones.
C21_BodyThresholdsIgnored ==
    /\ web.saves = 1
    /\ web.status = 200
    /\ fn.request.thresholds = <<20, 80>>
    /\ user_settings.timeframe = "1h"
    /\ user_settings.rsi_oversold = RSI_OVERSOLD
    /\ user_settings.rsi_overbought = RSI_OVERBOUGHT

\* C22: a notification is attempted for every recipient of its list, in the
\* order of the list, whichever of the sends fail, and the step leaves the
\* store as it was.
C22_FanOutComplete ==
    [][notified' # notified
          => LET sent == notified'[Len(notified')]
             IN  /\ notified' = Append(notified, sent)
                 /\ Len(sent.attempts) = Len(sent.recipients)
                 /\ \A j \in 1..Len(sent.recipients) :
                       sent.attempts[j].user_id = sent.recipients[j]
                 /\ rsi_signals' = rsi_signals]_vars

\* The send to an earlier recipient failed, the send to a later one went
\* through, and the event is in the store.
C22_LaterRecipientReached ==
    \E n \in 1..Len(notified) :
        /\ \E j, k \in 1..Len(notified[n].attempts) :
              /\ j < k
              /\ ~notified[n].attempts[j].ok
              /\ notified[n].attempts[k].ok
        /\ \E r \in 1..Len(rsi_signals) :
              /\ rsi_signals[r].symbol = notified[n].signal.symbol
              /\ rsi_signals[r].timestamp = notified[n].signal.timestamp
              /\ rsi_signals[r].signal_type = notified[n].signal.signal_type

\* The analysis of a symbol that has just been made: the last entry of the
\* cycle's record, and the window it was made on
JustAnalysed == analysed' # analysed /\ analysed' # <<>>
LastAnalysed == analysed'[Len(analysed')]
LastFrame == [tf |-> LastAnalysed.fetch_timeframe,
              k |-> NowSec \div TfSeconds(LastAnalysed.fetch_timeframe),
              n |-> LastAnalysed.n, rsi_column |-> LastAnalysed.rsi_column]

\* C23: when the lookups of recent events fail, every crossing among the
\* pairs examined is treated as new: it is returned and handed to add_signal
\* (and is in the store when that write succeeds), and the worker goes on
\* with the cycle.
C23_SuppressorFailsOpen ==
    [][(/\ JustAnalysed
        /\ LastAnalysed.outcome = "analysed"
        /\ LastAnalysed.n >= MIN_LIVE_CANDLES
        /\ ~LastAnalysed.read_ok)
          => /\ worker'.pc \in {"notify", "pace"}
             /\ \A i \in 1..(LOOKBACK_CANDLES - 1) :
                   LET kind == LiveSignalType(DfRsi(LastFrame, i + 1), DfRsi(LastFrame, i),
                                              config.RSI_OVERSOLD, config.RSI_OVERBOUGHT)
                       same(e) == /\ e.symbol = LastAnalysed.symbol
                                  /\ e.timestamp = DfTime(LastFrame, i)
                                  /\ e.signal_type = kind
                   IN  kind # NoSignal
                          => /\ \E j \in 1..Len(pending') : same(pending'[j])
                             /\ LastAnalysed.write_ok
                                   => \E r \in (Len(rsi_signals) + 1)..Len(rsi_signals') :
                                         same(rsi_signals'[r])]_vars

\* The lookups failed in the analysis of a window with a crossing, and the
\* crossing is in the store.
C23_StoredDespiteFailedLookup ==
    /\ analysed # <<>>
    /\ ~analysed[Len(analysed)].read_ok
    /\ analysed[Len(analysed)].outcome = "analysed"
    /\ worker.pc = "notify"
    /\ \E r \in 1..Len(rsi_signals) :
          /\ rsi_signals[r].symbol = Head(pending).symbol
          /\ rsi_signals[r].timestamp = Head(pending).timestamp

\* The kind of crossing the pair i of the window just analysed shows
LastKind(i) == LiveSignalType(DfRsi(LastFrame, i + 1), DfRsi(LastFrame, i),
                              config.RSI_OVERSOLD, config.RSI_OVERBOUGHT)

\* C24: the first crossing detected for a (symbol, timeframe) pair is not
\* suppressed: when the store holds no event of the pair before a live
\* analysis, the oldest crossing among the pairs examined is persisted by
\* that analysis (the write to the store succeeding).
C24_FirstCrossingPersisted ==
    [][(/\ JustAnalysed
        /\ LastAnalysed.outcome = "analysed"
        /\ LastAnalysed.n >= MIN_LIVE_CANDLES
        /\ LastAnalysed.write_ok
        /\ \A r \in 1..Len(rsi_signals) :
               ~(/\ rsi_signals[r].symbol = LastAnalysed.symbol
                 /\ rsi_signals[r].timeframe = LastAnalysed.timeframe))
          => \A i \in 1..(LOOKBACK_CANDLES - 1) :
                (/\ LastKind(i) # NoSignal
                 /\ \A older \in (i + 1)..(LOOKBACK_CANDLES - 1) : LastKind(older) = NoSignal)
                   => \E r \in (Len(rsi_signals) + 1)..Len(rsi_signals') :
                         /\ rsi_signals'[r].symbol = LastAnalysed.symbol
                         /\ rsi_signals'[r].timeframe = LastAnalysed.timeframe
                         /\ rsi_signals'[r].timestamp = DfTime(LastFrame, i)
                         /\ rsi_signals'[r].signal_type = LastKind(i)]_vars

\* The first crossing of a second symbol is in the store beside the event
\* another symbol has for the same candle.
C24_FirstEventOfSecondSymbol ==
    \E r \in 1..Len(rsi_signals), q \in 1..Len(rsi_signals) :
        /\ r < q
        /\ rsi_signals[r].symbol # rsi_signals[q].symbol
        /\ rsi_signals[r].timestamp = rsi_signals[q].timestamp
        /\ rsi_signals[r].signal_type = rsi_signals[q].signal_type
        /\ \A e \in 1..(q - 1) : rsi_signals[e].symbol # rsi_signals[q].symbol

\* C25: a worker restarted between two cycles runs its following cycles on
\* the watch list, the timeframe and the thresholds the stopped worker
\* would have used.
C25_RestartKeepsWatchConfig ==
    [][(fn.op = "restart" /\ fn.done /\ CycleStarts)
          => /\ bot'.current_symbols = fn.symbols
             /\ bot'.current_timeframe = fn.timeframe
             /\ config' = fn.config]_vars

\* What the restart can rely on: a restarted worker whose read of the
\* settings succeeds runs on the stored configuration, and each analysis it
\* makes is the one analyze_rsi_signals yields from the store, the clock and
\* that configuration.
RestartFromStore ==
    [][/\ (fn.op = "restart" /\ fn.done /\ CycleStarts /\ "settings" \notin log')
            => BotConfig(bot') = StoredConfig(user_settings')
       /\ (fn.op = "restart" /\ fn.done /\ JustAnalysed /\ LastAnalysed.outcome = "analysed")
            => \E res \in {AnalyzeRsiSignals(rsi_signals, LastAnalysed.symbol,
                                              LastAnalysed.timeframe, LastFrame,
                                              LastAnalysed.read_ok, LastAnalysed.write_ok)} :
                  rsi_signals' = res.rows /\ pending' = res.signals]_vars

\* The kind the ordered decision list oversold_enter, oversold_exit,
\* overbought_enter, overbought_exit gives a pair, the first match winning
OrderedList == <<"oversold_enter", "oversold_exit", "overbought_enter", "overbought_exit">>
FirstMatch(previous_rsi, current_rsi, low, high) ==
    LET hits == {j \in 1..Len(OrderedList) :
                    TableCondition(OrderedList[j], previous_rsi, current_rsi, low, high)}
    IN  IF hits = {} THEN NoSignal
        ELSE OrderedList[CHOOSE j \in hits : \A other \in hits : j <= other]

\* C26: the backfill classifies every adjacent pair as the ordered decision
\* list oversold_enter, oversold_exit, overbought_enter, overbought_exit
\* does, the first match winning, also a pair that jumps across both
\* thresholds.
C26_BackfillFollowsOrderedList ==
    fn.op = "historical_pair_done" =>
        fn.signal_type = FirstMatch(fn.previous_rsi, fn.current_rsi,
                                    config.RSI_OVERSOLD, config.RSI_OVERBOUGHT)

\* The other half of C26: no pair satisfies the conditions of two kinds.
C26_KindsExclusive ==
    fn.op = "historical_pair_done" =>
        \A a \in SignalTypes, b \in SignalTypes :
            (/\ TableCondition(a, fn.previous_rsi, fn.current_rsi,
                               config.RSI_OVERSOLD, config.RSI_OVERBOUGHT)
             /\ TableCondition(b, fn.previous_rsi, fn.current_rsi,
                               config.RSI_OVERSOLD, config.RSI_OVERBOUGHT))
                => a = b

\* Where the backfill and the ordered list agree: on every pair that does
\* not fall from the overbought zone to the oversold zone in one step.
BackfillAgreesOffTheFall ==
    (/\ fn.op = "historical_pair_done"
     /\ ~(fn.previous_rsi >= config.RSI_OVERBOUGHT /\ fn.current_rsi <= config.RSI_OVERSOLD))
        => fn.signal_type = FirstMatch(fn.previous_rsi, fn.current_rsi,
                                       config.RSI_OVERSOLD, config.RSI_OVERBOUGHT)

\* The event of a notification is a row of the store
Persisted(signal) ==
    \E r \in 1..Len(rsi_signals) :
        /\ rsi_signals[r].symbol = signal.symbol
        /\ rsi_signals[r].timeframe = signal.timeframe
        /\ rsi_signals[r].signal_type = signal.signal_type
        /\ rsi_signals[r].timestamp = signal.timestamp

\* C27: every event for which send_telegram_notification was called is in
\* the store; an event whose add_signal failed is not notified.
C27_NotifiedEventsPersisted ==
    \A n \in 1..Len(notified) : Persisted(notified[n].signal)

\* What holds of a notified event instead: it was returned by the analysis
\* of its symbol, where it was handed to add_signal, and it is in the store
\* whenever that write succeeded.
NotifiedAfterAddSignal ==
    [][notified' # notified
          => /\ pending # <<>>
             /\ notified'[Len(notified')].signal = Head(pending)
             /\ (analysed[Len(analysed)].write_ok => Persisted(Head(pending)))]_vars

\* A step in which a save-settings request is accepted
SaveAccepted == web'.saves = web.saves + 1 /\ web'.status = 200

\* C28: an accepted save-settings request leaves the notifications_enabled
\* flag of the settings row as it was, on SQLite and on PostgreSQL.
C28_SaveKeepsNotificationsFlag ==
    [][SaveAccepted
          => user_settings'.notifications_enabled = user_settings.notifications_enabled]_vars

\* What an accepted save does to the flag on each back-end: PostgreSQL keeps
\* it, SQLite leaves it enabled whatever it was.
SaveFlagPerBackend ==
    [][SaveAccepted
          => user_settings'.notifications_enabled =
                IF db_type = "postgresql" THEN user_settings.notifications_enabled
                ELSE TRUE]_vars

\* C29: the sources of a symbol are tried in the order of its priority list
\* up to the first one that returns a frame with rows, whose frame is the
\* result; a source that raises, returns None or returns no rows is passed
\* over, and the result is None exactly when every source of the list fails.
C29_FirstSourceWithDataWins ==
    fn.op = "get_historical_data_done" =>
        LET priority_list == PriorityList(fn.symbol)
            good == {j \in 1..Len(priority_list) : fn.answers[priority_list[j]] = "frame"}
        IN  /\ (fn.source = NoSource) <=> (good = {})
            /\ good = {} => fn.tried = priority_list
            /\ good # {} =>
                   \E first \in good :
                       /\ \A j \in good : first <= j
                       /\ fn.source = priority_list[first]
                       /\ fn.tried = SubSeq(priority_list, 1, first)

\* The first source of the list raised, the second returned no rows, and
\* the frame of the third is the result.
C29_ThirdSourceAnswers ==
    /\ fn.op = "get_historical_data_done"
    /\ fn.symbol = SUIUSDT
    /\ fn.answers["binance"] = "raises"
    /\ fn.answers["coingecko"] = "empty"
    /\ fn.answers["yahoo"] = "frame"
    /\ fn.source = "yahoo"
    /\ fn.tried = <<"binance", "coingecko", "yahoo">>

\* The rows the analysis just made appended to the store
Added == SubSeq(rsi_signals', Len(rsi_signals) + 1, Len(rsi_signals'))

\* The rows of the analysed symbol and timeframe that are in the store when
\* the pair stamped t is examined: those stored before the call, and those
\* the call appended for older pairs
SeenAt(t) ==
    {e \in {rsi_signals[r] : r \in 1..Len(rsi_signals)}
            \cup {Added[j] : j \in {a \in 1..Len(Added) : Added[a].timestamp < t}} :
        e.symbol = LastAnalysed.symbol /\ e.timeframe = LastAnalysed.timeframe}

\* C30: a live analysis goes through the last four adjacent pairs of the
\* window, oldest first, and persists the enter-crossing of each of them,
\* the newest or an older one that no earlier cycle recorded, when the store
\* holds no event within 60 s of the pair's candle timestamp and no event of
\* the same kind inside the duplicate window; the events of one call are
\* appended in the order of their candles.
C30_MissedCrossingsCaughtUp ==
    [][(/\ JustAnalysed
        /\ LastAnalysed.outcome = "analysed"
        /\ LastAnalysed.n >= MIN_LIVE_CANDLES
        /\ LastAnalysed.write_ok)
          => /\ \A j \in 1..(Len(Added) - 1) : Added[j].timestamp < Added[j + 1].timestamp
             /\ \A i \in 1..(LOOKBACK_CANDLES - 1) :
                   (/\ LastKind(i) # NoSignal
                    /\ \A e \in SeenAt(DfTime(LastFrame, i)) :
                           /\ e.timestamp - DfTime(LastFrame, i) >= PROCESSED_TOLERANCE
                              \/ DfTime(LastFrame, i) - e.timestamp >= PROCESSED_TOLERANCE
                           /\ e.signal_type = LastKind(i)
                                 => e.timestamp < CutoffSeconds(DUPLICATE_WINDOW))
                      => \E j \in 1..Len(Added) :
                            /\ Added[j].symbol = LastAnalysed.symbol
                            /\ Added[j].timeframe = LastAnalysed.timeframe
                            /\ Added[j].signal_type = LastKind(i)
                            /\ Added[j].timestamp = DfTime(LastFrame, i)]_vars

\* One call persisted the crossing of the oldest of the four pairs and,
\* after it, the crossing of a newer pair.
C30_OldestPairCaughtUp ==
    /\ worker.pc = "notify"
    /\ Len(pending) >= 2
    /\ pending[1].timestamp = DfTime(CallFrame, LOOKBACK_CANDLES - 1)
    /\ \E r \in 1..(Len(rsi_signals) - 1) :
          /\ rsi_signals[r].symbol = pending[1].symbol
          /\ rsi_signals[r].timestamp = pending[1].timestamp
          /\ rsi_signals[r].signal_type = pending[1].signal_type
          /\ rsi_signals[r + 1].timestamp = pending[2].timestamp
          /\ rsi_signals[r + 1].timestamp > rsi_signals[r].timestamp

====
